---------------------------- MODULE Spec2Model ----------------------------
(***************************************************************************)
(* Per-branch catalog server of optica-yolanda2 (Express + multer).        *)
(*                                                                         *)
(* The model follows src/unnamed/part_000, the implementation that has     *)
(* every operation of the catalog layer (list, create, update, delete,     *)
(* export).  A request runs through its middleware chain                   *)
(* checkAdmin -> upload.single("imagen") -> handler.  upload.single reads  *)
(* the body from the network and yields to the event loop, so the chain is  *)
(* two steps (the middleware, then the handler) and other requests are      *)
(* answered in between; a handler is synchronous and is one step.           *)
(* State is what the server keeps on disk: one JSON snapshot               *)
(* per branch (db) and the uploaded files (files), plus the wall clock and *)
(* the request in hand with its response.                                  *)
(*                                                                         *)
(* Text values are sequences of one-character strings, so that             *)
(* String.prototype.toLowerCase is computed character by character.        *)
(* Date.now()/Math.random() names (file names, product ids) are opaque and *)
(* assumed never to repeat.  Product ids, which requests name, are issued  *)
(* from a counter; file names, which no request names, are the least       *)
(* number no file and no product carries.                                  *)
(*                                                                         *)
(* The last section models the admin routes of src/server.js, whose        *)
(* uploads are named after the clock and the original file name.           *)
(***************************************************************************)
EXTENDS Naturals, Sequences, FiniteSets

VARIABLES
    db,      \* db[s]: the productos array of data/<s>.json, s \in SUCURSALES
    files,   \* the files under public/uploads, each <<directory, name>>
    now,     \* Date.now()
    req,     \* the request being answered
    res,     \* its response, until it is sent
    broken,  \* the branches whose data/<s>.json is missing or not valid JSON
    issued,  \* how many product ids the server has generated
    inflight \* the requests upload.single has finished with (their file
             \* is stored) and whose handler has not run yet

vars == <<db, files, now, req, res, broken, issued, inflight>>

----------------------------------------------------------------------------
(* Bounds of the model *)

\* At most MaxInflight requests are between multer and their handler.
MaxInflight == 1
\* The same bound in the traffic of overlapping mutations (SpecConc).
MaxConcurrent == 2
\* Date.now() takes the values 0..MaxTime.
MaxTime == 1
\* At most MaxFiles uploaded files exist (on disk or referenced) at a time.
MaxFiles == 3
\* At most MaxIds product ids are generated in a run of the server.
MaxIds == 2

----------------------------------------------------------------------------
(* JavaScript values *)

\* undefined: a one-element sequence that is no text (its element is not a
\* single character).
Undefined == <<"undefined">>
\* The boolean true of a JSON body (text fields of a multipart body are
\* always strings).
JsTrue == <<"boolean:true">>

\* ToBoolean of a string, undefined or true: !v is ~Truthy(v).
Truthy(v) == v # Undefined /\ v # <<>>

\* The letters with a lower-case form, over the alphabet of the model, the
\* characters up to U+00FF: the ASCII letters and the letters of Latin-1
\* (U+00C0..U+00DE without the sign U+00D7).  Each maps to one character;
\* every other character of the alphabet is its own lower case.
UpperCase == <<"A", "B", "C", "D", "E", "F", "G", "H", "I", "J", "K", "L",
               "M", "N", "O", "P", "Q", "R", "S", "T", "U", "V", "W", "X",
               "Y", "Z", "À", "Á", "Â", "Ã", "Ä", "Å", "Æ", "Ç", "È", "É",
               "Ê", "Ë", "Ì", "Í", "Î", "Ï", "Ð", "Ñ", "Ò", "Ó", "Ô", "Õ",
               "Ö", "Ø", "Ù", "Ú", "Û", "Ü", "Ý", "Þ">>
LowerCase == <<"a", "b", "c", "d", "e", "f", "g", "h", "i", "j", "k", "l",
               "m", "n", "o", "p", "q", "r", "s", "t", "u", "v", "w", "x",
               "y", "z", "à", "á", "â", "ã", "ä", "å", "æ", "ç", "è", "é",
               "ê", "ë", "ì", "í", "î", "ï", "ð", "ñ", "ò", "ó", "ô", "õ",
               "ö", "ø", "ù", "ú", "û", "ü", "ý", "þ">>

toLowerChar(c) ==
    IF \E i \in 1..Len(UpperCase) : UpperCase[i] = c
    THEN LowerCase[CHOOSE i \in 1..Len(UpperCase) : UpperCase[i] = c]
    ELSE c

\* A comparison of codes that tells letter cases apart.
keepCase(s) == s

\* String.prototype.toLowerCase
toLowerCase(s) == [i \in 1..Len(s) |-> toLowerChar(s[i])]

----------------------------------------------------------------------------
(* Configuration *)

SUCURSALES == {"central", "fernando", "caacupe"}
ADMIN_KEY == <<"y", "o", "l", "a", "n", "d", "a", "2", "0", "2", "5">>

\* The directories under public/uploads: made at startup, one per branch;
\* no request makes another.
UploadDirs == SUCURSALES

\* path.join(UP_DIR, sucursal), as the directory under public/uploads it
\* names.  The route parameter is URI-decoded, so /upload/central%2F gives
\* "central/", which path.join normalises to the directory of central.
joinUpDir(suc) == IF suc = "central/" THEN "central" ELSE suc

\* absFromRel(rel) for rel = /uploads/<suc>/<name>: the file <<suc, name>>.
absFromRel(rel) == <<rel[2], rel[3]>>

\* The public reference `/uploads/${suc}/${filename}`.
relPath(suc, filename) == <<"uploads", suc, filename>>

\* A cleanup that leaves the file on disk.
keepFile(fs, path) == fs

\* fs.unlinkSync inside try/catch: removes the file if it is there.
unlinkSync(fs, path) == fs \ {path}

----------------------------------------------------------------------------
(* Request inputs *)

Keys == {Undefined, <<>>, <<"x">>, ADMIN_KEY}
Codigos == {<<"a", "é">>, <<"A", "É">>, <<"b", "2">>}

FieldNames == {"codigo", "nombre", "precio", "categoria", "oferta", "precioPromo"}

\* A body with no field.
EmptyBody == [f \in FieldNames |-> Undefined]

\* The scenario's body, with a given code.
FullBody(c) == [codigo |-> c, nombre |-> <<"G">>, precio |-> <<"1">>,
                categoria |-> <<"d">>, oferta |-> Undefined,
                precioPromo |-> Undefined]

\* The values a request may give each field.
FieldValues ==
    [codigo      |-> {Undefined, <<>>} \cup Codigos,
     nombre      |-> {Undefined, <<>>, <<"G">>, <<"L">>},
     precio      |-> {Undefined, <<>>, <<"1">>, <<"2">>},
     categoria   |-> {Undefined, <<>>, <<"d">>, <<"s">>},
     oferta      |-> {Undefined, <<"o", "n">>, <<"n", "o">>, JsTrue},
     precioPromo |-> {Undefined, <<>>, <<"9">>}]

\* The bodies that differ from `base` in at most one field.
OneOff(base) ==
    {base} \cup UNION {{[base EXCEPT ![f] = v] : v \in FieldValues[f]} :
                         f \in FieldNames}

\* The branch of a request: two of the allowed set, one that names no
\* directory, one that names (after path.join) the directory of central.
BranchIn == {"central", "fernando", "norte", "central/"}

----------------------------------------------------------------------------
(* Products and catalogs *)

\* v || ""
orEmpty(v) == IF Truthy(v) THEN v ELSE <<>>

\* All products of all snapshots.
AllProducts == UNION {{db[s][i] : i \in DOMAIN db[s]} : s \in SUCURSALES}

\* File names: `${Date.now()}_${Math.random().toString(36).slice(2)}${ext}`.
\* The part before ext is never repeated: the least number that names no
\* file on disk and that no product refers to.  ext is
\* path.extname(file.originalname) || ".jpg": the extension of the name the
\* client gave its file (<<>> when it has none), which the client chooses.
UsedNames == {f[2][1] : f \in files} \cup {p.img[3][1] : p \in AllProducts}
FreeNames == (1..MaxFiles) \ UsedNames
NewName == CHOOSE n \in FreeNames : \A m \in FreeNames : n <= m
DefaultExt == <<".", "j", "p", "g">>
Exts == {DefaultExt, <<".", "p", "n", "g">>, <<".", "j", ",", "g">>}
filenameOf(ext) == <<NewName, IF ext = <<>> THEN DefaultExt ELSE ext>>

\* Product ids: `${Date.now()}_${Math.random().toString(36).slice(2,8)}`,
\* never repeated: the n-th id the server generates is the number n, and
\* the id of a deleted product is not given again.
FreeIds == (issued + 1)..MaxIds
NewId == issued + 1

\* A search that settles for the first product when the id is not there.
findIndexOrFirst(productos, id) ==
    IF \E i \in DOMAIN productos : productos[i].id = id
    THEN CHOOSE i \in DOMAIN productos :
             /\ productos[i].id = id
             /\ \A k \in DOMAIN productos : productos[k].id = id => i <= k
    ELSE IF productos # <<>> THEN 1 ELSE 0

\* Array.prototype.findIndex(p => p.id === id), 1-based; 0 for -1.
findIndex(productos, id) ==
    IF \E i \in DOMAIN productos : productos[i].id = id
    THEN CHOOSE i \in DOMAIN productos :
             /\ productos[i].id = id
             /\ \A j \in DOMAIN productos : productos[j].id = id => i <= j
    ELSE 0

\* A removal that drops the product and everything after it.
spliceToEnd(productos, idx) == SubSeq(productos, 1, idx - 1)

\* Array.prototype.splice(idx, 1)
splice(productos, idx) ==
    [i \in 1..(Len(productos) - 1) |->
        IF i < idx THEN productos[i] ELSE productos[i + 1]]

\* oferta === "true" || oferta === true || oferta === "on"
parseOferta(oferta) ==
    oferta = <<"t", "r", "u", "e">> \/ oferta = JsTrue \/ oferta = <<"o", "n">>

----------------------------------------------------------------------------
(* Middleware *)

\* A gate that lets any non-empty key in.
anyKey(k) == Truthy(k)

\* checkAdmin: passes when the x-admin-key header is the configured key.
checkAdmin(k) == ~(~Truthy(k) \/ k # ADMIN_KEY)

\* Responses: the status, the message and the products of the body.
Response(status, error, productos) ==
    [status |-> status, error |-> error, productos |-> productos]

\* No response is waiting to be sent.
NoResponse == Response(0, "", <<>>)

\* The outcome of a request that wrote no snapshot: the response and the disk
\* after it.
Outcome(r, d, f) ==
    [res |-> r, db |-> d, files |-> f, broken |-> broken, issued |-> issued]

\* The outcome of a request whose handler reached writeJson: w is what the
\* write left of the snapshots.
Saved(r, w, f) ==
    [res |-> r, db |-> w.db, files |-> f, broken |-> w.broken,
     issued |-> issued]

\* The outcome o of a handler that generated an id on its way.
Issuing(o) == [o EXCEPT !.issued = NewId]

\* The response of Express's default error handler to an error passed to
\* next() or thrown by a handler.
InternalError == Response(500, "Internal Server Error", <<>>)

\* An upload that hands out a name and writes no file.
storageWritesNothing(suc, file, ext, fs) ==
    IF ~file THEN [failed |-> FALSE, filename |-> <<>>, files |-> fs]
    ELSE IF joinUpDir(suc) \notin UploadDirs
    THEN [failed |-> TRUE, filename |-> <<>>, files |-> fs]
    ELSE [failed |-> FALSE, filename |-> filenameOf(ext), files |-> fs]

\* multer's diskStorage for upload.single("imagen"): with a file part, the
\* destination callback gives path.join(UP_DIR, req.params.sucursal) and the
\* file is written there under a generated name.  multer makes no directory
\* when the destination is a function: opening the file in a missing
\* directory fails (ENOENT) and the error goes to next().
\* filename <<>>: no req.file.
storage(suc, file, ext, fs) ==
    IF ~file
    THEN [failed |-> FALSE, filename |-> <<>>, files |-> fs]
    ELSE IF joinUpDir(suc) \notin UploadDirs
    THEN [failed |-> TRUE, filename |-> <<>>, files |-> fs]
    ELSE [failed |-> FALSE, filename |-> filenameOf(ext),
          files |-> fs \cup {<<joinUpDir(suc), filenameOf(ext)>>}]

\* Whether the request's upload needs a name the bound MaxFiles leaves none for.
NoNameLeft(r) ==
    /\ checkAdmin(r.key) /\ r.file /\ joinUpDir(r.suc) \in UploadDirs
    /\ FreeNames = {}

\* readJson: JSON.parse(fs.readFileSync(...)) throws when the snapshot file is
\* missing or is not valid JSON; nothing catches it.
readFails(suc) == suc \in broken

\* A load that gives the catalog as it was when the request arrived.
readJsonAtArrival(r) == r.seen

\* readJson(suc).productos in the handler of the request r: the catalog of
\* the snapshot file as it is when the handler runs.
readJson(r) == db[r.suc]

\* A duplicate check of Create that tells letter cases apart.
codigoExistsExact(productos, codigo) ==
    \E i \in DOMAIN productos : productos[i].codigo = codigo

\* A duplicate check of Create that looks into the catalogs of all branches.
codigoExistsAnyBranch(productos, codigo) ==
    \E p \in AllProducts : toLowerCase(orEmpty(p.codigo)) = toLowerCase(codigo)

\* data.productos.some(p => (p.codigo || "").toLowerCase() === codigo.toLowerCase())
codigoExists(productos, codigo) ==
    \E i \in DOMAIN productos :
        toLowerCase(orEmpty(productos[i].codigo)) = toLowerCase(codigo)

\* A duplicate check of Update that tells letter cases apart, and one that
\* counts the edited product itself.
codigoExactElsewhere(productos, id, codigo) ==
    \E i \in DOMAIN productos :
        productos[i].id # id /\ productos[i].codigo = codigo
codigoExistsAnywhere(productos, id, codigo) ==
    \E i \in DOMAIN productos :
        toLowerCase(orEmpty(productos[i].codigo)) = toLowerCase(codigo)

\* data.productos.some(x => x.id !== id &&
\*     (x.codigo || "").toLowerCase() === codigo.toLowerCase())
codigoExistsElsewhere(productos, id, codigo) ==
    \E i \in DOMAIN productos :
        /\ productos[i].id # id
        /\ toLowerCase(orEmpty(productos[i].codigo)) = toLowerCase(codigo)

\* The fields of a product that hold text.
TextFields == {"codigo", "nombre", "precio", "categoria", "precioPromo"}

\* The characters U+0000..U+00FF, in order.  A character is the string that
\* holds it; a character that a string of this module cannot hold (U+0000,
\* the grave accent U+0060, and those from U+0100 on) is the string of its
\* name, "U+" and four hex digits.
Latin1 ==
    <<
      "U+0000", "", "", "", "", "", "", "",
      "", "\t", "\n", "", "\f", "\r", "", "",
      "", "", "", "", "", "", "", "",
      "", "", "", "", "", "", "", "",
      " ", "!", "\"", "#", "$", "%", "&", "'",
      "(", ")", "*", "+", ",", "-", ".", "/",
      "0", "1", "2", "3", "4", "5", "6", "7",
      "8", "9", ":", ";", "<", "=", ">", "?",
      "@", "A", "B", "C", "D", "E", "F", "G",
      "H", "I", "J", "K", "L", "M", "N", "O",
      "P", "Q", "R", "S", "T", "U", "V", "W",
      "X", "Y", "Z", "[", "\\", "]", "^", "_",
      "U+0060", "a", "b", "c", "d", "e", "f", "g",
      "h", "i", "j", "k", "l", "m", "n", "o",
      "p", "q", "r", "s", "t", "u", "v", "w",
      "x", "y", "z", "{", "|", "}", "~", "",
      "", "", "", "", "", "", "", "",
      "", "", "", "", "", "", "", "",
      "", "", "", "", "", "", "", "",
      "", "", "", "", "", "", "", "",
      " ", "¡", "¢", "£", "¤", "¥", "¦", "§",
      "¨", "©", "ª", "«", "¬", "­", "®", "¯",
      "°", "±", "²", "³", "´", "µ", "¶", "·",
      "¸", "¹", "º", "»", "¼", "½", "¾", "¿",
      "À", "Á", "Â", "Ã", "Ä", "Å", "Æ", "Ç",
      "È", "É", "Ê", "Ë", "Ì", "Í", "Î", "Ï",
      "Ð", "Ñ", "Ò", "Ó", "Ô", "Õ", "Ö", "×",
      "Ø", "Ù", "Ú", "Û", "Ü", "Ý", "Þ", "ß",
      "à", "á", "â", "ã", "ä", "å", "æ", "ç",
      "è", "é", "ê", "ë", "ì", "í", "î", "ï",
      "ð", "ñ", "ò", "ó", "ô", "õ", "ö", "÷",
      "ø", "ù", "ú", "û", "ü", "ý", "þ", "ÿ"
    >>
UpperHex == <<"0", "1", "2", "3", "4", "5", "6", "7", "8", "9",
              "A", "B", "C", "D", "E", "F">>
LowerHex == <<"0", "1", "2", "3", "4", "5", "6", "7", "8", "9",
              "a", "b", "c", "d", "e", "f">>

\* The four hex digits of the code unit n, in the given digits.
hex4(n, digits) ==
    <<digits[(n \div 4096) + 1], digits[((n \div 256) % 16) + 1],
      digits[((n \div 16) % 16) + 1], digits[(n % 16) + 1]>>

\* String.fromCharCode(n): the character of the code unit n.
fromCharCode(n) ==
    IF n < 256 THEN Latin1[n + 1]
    ELSE LET d == hex4(n, UpperHex)
         IN  "U+" \o d[1] \o d[2] \o d[3] \o d[4]

\* Backspace and start of heading, two of the control characters.
BS == fromCharCode(8)
SOH == fromCharCode(1)

\* The characters below U+0020, and the surrogates: U+D800..U+DBFF lead a
\* pair, U+DC00..U+DFFF trail one.
Controls == {fromCharCode(n) : n \in 0..31}
HighSurrogates == {fromCharCode(n) : n \in 55296..56319}
LowSurrogates == {fromCharCode(n) : n \in 56320..57343}

\* charCodeAt of a control character or a surrogate.
charCode(c) ==
    IF c \in Controls THEN CHOOSE n \in 0..31 : fromCharCode(n) = c
    ELSE CHOOSE n \in 55296..57343 : fromCharCode(n) = c

\* The two-character escapes of JSON: the character and the letter that
\* follows the backslash.
ShortEscapes ==
    {<<"\"", "\"">>, <<"\\", "\\">>, <<BS, "b">>, <<"\f", "f">>,
     <<"\n", "n">>, <<"\r", "r">>, <<"\t", "t">>}

\* \u and the four lower-case hex digits of the character.
hexEscape(c) == <<"\\", "u">> \o hex4(charCode(c), LowerHex)

\* JSON.stringify of a string, without the enclosing quotes: a double quote
\* and a backslash are preceded by a backslash; a control character is
\* written as its two-character escape when it has one and as \u00xx
\* otherwise; a surrogate that is not part of a pair is written as \udxxx;
\* every other character is written as it is.
RECURSIVE stringifyText(_)
stringifyText(v) ==
    IF v = <<>> THEN <<>>
    ELSE LET c == Head(v)
         IN  IF \E e \in ShortEscapes : e[1] = c
             THEN <<"\\", (CHOOSE e \in ShortEscapes : e[1] = c)[2]>>
                  \o stringifyText(Tail(v))
             ELSE IF c \in Controls
             THEN hexEscape(c) \o stringifyText(Tail(v))
             ELSE IF Len(c) = 1
             THEN <<c>> \o stringifyText(Tail(v))
             ELSE IF c \in HighSurrogates /\ Len(v) >= 2
                     /\ v[2] \in LowSurrogates
             THEN <<c, v[2]>> \o stringifyText(SubSeq(v, 3, Len(v)))
             ELSE IF c \in HighSurrogates \cup LowSurrogates
             THEN hexEscape(c) \o stringifyText(Tail(v))
             ELSE <<c>> \o stringifyText(Tail(v))

\* A reading of the file that takes its text as it stands.
parseTextRaw(t) == t

\* Whether c is a hex digit, and its value.
isHexDigit(c) == \E n \in 1..16 : UpperHex[n] = c \/ LowerHex[n] = c
hexValue(c) == (CHOOSE n \in 1..16 : UpperHex[n] = c \/ LowerHex[n] = c) - 1

\* JSON.parse of the inside of a string literal of valid JSON: the escapes
\* are undone.  \u and four hex digits, in either case, stand for the
\* character of that code unit; \" \\ \/ \b \f \n \r \t for theirs.
RECURSIVE parseText(_)
parseText(t) ==
    IF t = <<>> THEN <<>>
    ELSE IF Head(t) = "\\" /\ Len(t) >= 6 /\ t[2] = "u"
            /\ \A i \in 3..6 : isHexDigit(t[i])
    THEN <<fromCharCode(4096 * hexValue(t[3]) + 256 * hexValue(t[4])
                        + 16 * hexValue(t[5]) + hexValue(t[6]))>>
         \o parseText(SubSeq(t, 7, Len(t)))
    ELSE IF Head(t) = "\\" /\ Len(t) >= 2
    THEN <<IF \E e \in ShortEscapes : e[2] = t[2]
           THEN (CHOOSE e \in ShortEscapes : e[2] = t[2])[1]
           ELSE t[2]>> \o parseText(SubSeq(t, 3, Len(t)))
    ELSE <<Head(t)>> \o parseText(Tail(t))

\* What readJson gives back of a product that writeJson has written: text
\* goes through JSON.stringify and JSON.parse; booleans, numbers and the
\* image path (no character to escape) come back as they are.
stored(p) ==
    [f \in DOMAIN p |->
        IF f \in TextFields THEN parseText(stringifyText(p[f])) ELSE p[f]]

\* A save that keeps only the last product of what it was given.
writeJsonLast(d, bk, s, productos, wfail, wtrunc) ==
    [db |-> [d EXCEPT ![s] = IF productos = <<>> THEN <<>>
                             ELSE <<stored(productos[Len(productos)])>>],
     broken |-> bk \ {s}]

\* writeJson(s, d) = fs.writeFileSync(jf(s), JSON.stringify(d, null, 2)): the
\* file is opened for writing, which empties it, and then written.  When
\* it succeeds the snapshot of s is replaced as a whole.  When it throws
\* (wfail), either the open was refused and the snapshot stays (~wtrunc:
\* file not writable), or the write failed after the open (wtrunc: disk
\* full, file size limit) and the file is left empty, which is not JSON.
writeJson(d, bk, s, productos, wfail, wtrunc) ==
    IF ~wfail
    THEN [db |-> [d EXCEPT ![s] =
                     [i \in DOMAIN productos |-> stored(productos[i])]],
          broken |-> bk \ {s}]
    ELSE IF wtrunc
    THEN [db |-> [d EXCEPT ![s] = <<>>], broken |-> bk \cup {s}]
    ELSE [db |-> d, broken |-> bk]

----------------------------------------------------------------------------
(* POST /upload/:sucursal *)

\* A validation that asks for a name and a price only.
missingNombrePrecio(b) == ~Truthy(b.nombre) \/ ~Truthy(b.precio)

\* !nombre || !precio || !categoria || !codigo
missingFields(b) ==
    ~Truthy(b.nombre) \/ ~Truthy(b.precio) \/ ~Truthy(b.categoria)
    \/ ~Truthy(b.codigo)

\* The handler, after checkAdmin and multer: up is multer's result.
postUploadHandler(r, up) ==
    LET suc == r.suc
        b == r.body
        data == readJson(r)
        mine == absFromRel(relPath(suc, up.filename))
        prod == [id |-> NewId,
                 codigo |-> b.codigo,
                 nombre |-> b.nombre,
                 precio |-> b.precio,
                 categoria |-> b.categoria,
                 oferta |-> parseOferta(b.oferta),
                 precioPromo |-> orEmpty(b.precioPromo),
                 img |-> relPath(suc, up.filename),
                 ts |-> now]
    IN  IF suc \notin SUCURSALES
        THEN Outcome(Response(400, "Sucursal invalida", <<>>), db, up.files)
        ELSE IF up.filename = <<>>
        THEN Outcome(Response(400, "Falta imagen", <<>>), db, up.files)
        ELSE IF missingFields(b)
        THEN Outcome(Response(400, "Faltan datos", <<>>), db,
                     unlinkSync(up.files, mine))
        ELSE IF readFails(suc)
        THEN Outcome(InternalError, db, up.files)
        ELSE IF codigoExists(data, b.codigo)
        THEN Outcome(Response(409, "Codigo ya existente", <<>>), db,
                     unlinkSync(up.files, mine))
        ELSE IF FreeIds = {}
        THEN Outcome(Response(0, "bound", <<>>), db, up.files)
        ELSE Issuing(Saved(IF r.wfail THEN InternalError
                           ELSE Response(200, "", <<prod>>),
                           writeJson(db, broken, suc, Append(data, prod),
                                     r.wfail, r.wtrunc),
                           up.files))

----------------------------------------------------------------------------
(* PUT /producto/:sucursal/:id *)

\* An edit that writes the promo price whether the request carries it or not.
patchPromoAlways(p, b, suc, filename) ==
    [p EXCEPT !.codigo = IF Truthy(b.codigo) THEN b.codigo ELSE p.codigo,
              !.nombre = IF Truthy(b.nombre) THEN b.nombre ELSE p.nombre,
              !.precio = IF Truthy(b.precio) THEN b.precio ELSE p.precio,
              !.categoria = IF Truthy(b.categoria) THEN b.categoria
                            ELSE p.categoria,
              !.oferta = IF b.oferta # Undefined THEN parseOferta(b.oferta)
                         ELSE p.oferta,
              !.precioPromo = orEmpty(b.precioPromo),
              !.img = IF filename # <<>> THEN relPath(suc, filename) ELSE p.img,
              !.ts = now]

\* The assignments of the handler to the product p, in the handler's order.
patch(p, b, suc, filename) ==
    LET p1 == IF Truthy(b.codigo) /\ b.codigo # p.codigo
              THEN [p EXCEPT !.codigo = b.codigo] ELSE p
        p2 == IF Truthy(b.nombre) THEN [p1 EXCEPT !.nombre = b.nombre] ELSE p1
        p3 == IF Truthy(b.precio) THEN [p2 EXCEPT !.precio = b.precio] ELSE p2
        p4 == IF Truthy(b.categoria)
              THEN [p3 EXCEPT !.categoria = b.categoria] ELSE p3
        p5 == IF b.oferta # Undefined
              THEN [p4 EXCEPT !.oferta = parseOferta(b.oferta)] ELSE p4
        p6 == IF b.precioPromo # Undefined
              THEN [p5 EXCEPT !.precioPromo = b.precioPromo] ELSE p5
        p7 == IF filename # <<>>
              THEN [p6 EXCEPT !.img = relPath(suc, filename)] ELSE p6
    IN  [p7 EXCEPT !.ts = now]

putProductoHandler(r, up) ==
    LET suc == r.suc
        b == r.body
        data == readJson(r)
        idx == findIndex(data, r.id)
        p == data[idx]
        q == patch(p, b, suc, up.filename)
        fs == IF up.filename # <<>> THEN unlinkSync(up.files, absFromRel(p.img))
              ELSE up.files
    IN  IF suc \notin SUCURSALES
        THEN Outcome(Response(400, "Sucursal invalida", <<>>), db, up.files)
        ELSE IF readFails(suc)
        THEN Outcome(InternalError, db, up.files)
        ELSE IF idx = 0
        THEN Outcome(Response(404, "Producto no encontrado", <<>>), db,
                     up.files)
        ELSE IF /\ Truthy(b.codigo) /\ b.codigo # p.codigo
                /\ codigoExistsElsewhere(data, r.id, b.codigo)
        THEN Outcome(Response(409, "Codigo ya existente", <<>>), db,
                     up.files)
        ELSE Saved(IF r.wfail THEN InternalError
                   ELSE Response(200, "", <<q>>),
                   writeJson(db, broken, suc, [data EXCEPT ![idx] = q],
                             r.wfail, r.wtrunc),
                   fs)

----------------------------------------------------------------------------
(* DELETE /producto/:sucursal/:id *)

deleteProductoHandler(r) ==
    LET suc == r.suc
        data == readJson(r)
        idx == findIndex(data, r.id)
        removed == data[idx]
        fs == unlinkSync(files, absFromRel(removed.img))
    IN  IF suc \notin SUCURSALES
        THEN Outcome(Response(400, "Sucursal invalida", <<>>), db, files)
        ELSE IF readFails(suc)
        THEN Outcome(InternalError, db, files)
        ELSE IF idx = 0
        THEN Outcome(Response(404, "Producto no encontrado", <<>>), db,
                     files)
        ELSE Saved(IF r.wfail THEN InternalError
                   ELSE Response(200, "", <<removed>>),
                   writeJson(db, broken, suc, splice(data, idx),
                             r.wfail, r.wtrunc),
                   fs)

\* The route: checkAdmin, the handler.
deleteProducto(r) ==
    IF ~checkAdmin(r.key)
    THEN Outcome(Response(401, "Admin requerido", <<>>), db, files)
    ELSE deleteProductoHandler(r)

----------------------------------------------------------------------------
(* GET /productos/:sucursal and GET /export/:sucursal.json *)

getProductos(suc) ==
    IF suc \notin SUCURSALES
    THEN Outcome(Response(400, "Sucursal invalida", <<>>), db, files)
    ELSE IF readFails(suc)
    THEN Outcome(InternalError, db, files)
    ELSE Outcome(Response(200, "", db[suc]), db, files)

exportJson(suc) ==
    IF suc \notin SUCURSALES
    THEN Outcome(Response(400, "Sucursal invalida", <<>>), db, files)
    ELSE IF readFails(suc)
    THEN Outcome(InternalError, db, files)
    ELSE Outcome(Response(200, "", db[suc]), db, files)

----------------------------------------------------------------------------
(* GET /export/:sucursal.csv *)

\* String.prototype.replace(/\n/g, " ")
replaceNewlines(v) == [i \in 1..Len(v) |-> IF v[i] = "\n" THEN " " ELSE v[i]]

\* String.prototype.replace(/"/g, '""')
RECURSIVE doubleQuotes(_)
doubleQuotes(v) ==
    IF v = <<>> THEN <<>>
    ELSE (IF Head(v) = "\"" THEN <<"\"", "\"">> ELSE <<Head(v)>>)
         \o doubleQuotes(Tail(v))

\* v.includes(",") || v.includes('"') || v.includes("\n")
includesSpecial(v) == \E i \in 1..Len(v) : v[i] \in {",", "\"", "\n"}

\* A cell: wrapped in double quotes, its double quotes doubled, when it holds
\* a comma, a double quote or a line feed.
csvCell(v) ==
    IF includesSpecial(v) THEN <<"\"">> \o doubleQuotes(v) \o <<"\"">> ELSE v

\* The text of an uploaded file's name: the generated part, then the
\* extension as the client gave it.
NameText == <<"f1", "f2", "f3", "f4", "f5">>
imgText(img) ==
    <<"/", img[1], "/", img[2], "/", NameText[img[3][1]]>> \o img[3][2]

header == <<"codigo", "nombre", "precio", "categoria", "oferta", "precio_promo", "imagen">>

\* .map(p => ({ codigo, nombre, precio, categoria, oferta, precio_promo, imagen }))
csvRecord(p) ==
    [codigo |-> orEmpty(p.codigo),
     nombre |-> orEmpty(p.nombre),
     precio |-> replaceNewlines(orEmpty(p.precio)),
     categoria |-> orEmpty(p.categoria),
     oferta |-> IF p.oferta THEN <<"1">> ELSE <<"0">>,
     precio_promo |-> replaceNewlines(orEmpty(p.precioPromo)),
     imagen |-> imgText(p.img)]

\* Array.prototype.join(sep) of texts.
RECURSIVE join(_, _)
join(texts, sep) ==
    IF texts = <<>> THEN <<>>
    ELSE IF Len(texts) = 1 THEN texts[1]
    ELSE texts[1] \o <<sep>> \o join(Tail(texts), sep)

\* header.map(h => cell of r[h]).join(",")
csvLine(r) == join([i \in 1..Len(header) |-> csvCell(r[header[i]])], ",")

\* .filter(p => !cat || p.categoria === cat)
filterCat(productos, cat) ==
    SelectSeq(productos, LAMBDA p : ~Truthy(cat) \/ p.categoria = cat)

csvText(productos, cat) ==
    LET rows == filterCat(productos, cat)
    IN  join(<<join([i \in 1..Len(header) |-> <<header[i]>>], ",")>>
             \o [i \in 1..Len(rows) |-> csvLine(csvRecord(rows[i]))], "\n")

\* The route; the response's payload is the text.
exportCsv(suc, cat) ==
    IF suc \notin SUCURSALES
    THEN Outcome(Response(400, "Sucursal invalida", <<>>), db, files)
    ELSE IF readFails(suc)
    THEN Outcome(InternalError, db, files)
    ELSE Outcome(Response(200, "", csvText(db[suc], cat)), db, files)

----------------------------------------------------------------------------
(* The requests the model sends *)

\* A request: the route (op), the x-admin-key header, the :sucursal and :id
\* parameters, whether a file part "imagen" comes with it and the extension
\* of its original name (ext, <<>> for none), the body's fields, whether
\* the snapshot's write throws (wfail) and, when it does, whether it
\* had already emptied the file (wtrunc).  Once upload.single is through:
\* req.file.filename (filename, <<>> without a file).  For the properties:
\* the catalog as it was when the request arrived (seen).
Request(op, k, s, i, f, b) ==
    [op |-> op, key |-> k, suc |-> s, id |-> i, file |-> f, ext |-> <<>>,
     body |-> b, wfail |-> FALSE, wtrunc |-> FALSE, filename |-> <<>>,
     slot |-> 0, seen |-> <<>>]
CreateReq(k, s, f, b) == Request("create", k, s, 0, f, b)
UpdateReq(k, s, i, f, b) == Request("update", k, s, i, f, b)
DeleteReq(k, s, i) == Request("delete", k, s, i, FALSE, EmptyBody)
GetReq(s) == Request("get", Undefined, s, 0, FALSE, EmptyBody)
ExportReq(s) == Request("export", Undefined, s, 0, FALSE, EmptyBody)
NoRequest == Request("none", Undefined, "", 0, FALSE, EmptyBody)

RequiredFields == {"nombre", "precio", "categoria", "codigo"}

\* Bodies of Create: the scenario's body with each code, and with one
\* required field missing or empty.
CreateBodies ==
    {FullBody(c) : c \in Codigos}
    \cup {[FullBody(<<"a", "é">>) EXCEPT ![f] = v] :
            f \in RequiredFields, v \in {Undefined, <<>>}}

\* Bodies of Update: nothing, a price, a code, a colliding code with a price.
UpdateBodies ==
    {EmptyBody, [EmptyBody EXCEPT !.precio = <<"2">>]}
    \cup {[EmptyBody EXCEPT !.codigo = c] : c \in Codigos}
    \cup {[EmptyBody EXCEPT !.codigo = <<"A", "É">>, !.precio = <<"2">>]}

\* The keys that are not the secret.
WrongKeys == Keys \ {ADMIN_KEY}

\* Creates: every body on central, the scenario's on another branch, on
\* the branches outside the allowed set and without an image, and with
\* every wrong key.
CreateReqs ==
    {CreateReq(ADMIN_KEY, "central", TRUE, b) : b \in CreateBodies}
    \cup {CreateReq(ADMIN_KEY, s, f, FullBody(<<"a", "é">>)) :
            s \in BranchIn, f \in BOOLEAN}
    \cup {CreateReq(k, s, TRUE, FullBody(<<"a", "é">>)) :
            k \in WrongKeys, s \in {"central", "norte"}}

\* Updates: every body on either product of central, with and without an
\* image; a code on another branch; a price on the branches outside the
\* allowed set and with every wrong key.
UpdateReqs ==
    {UpdateReq(ADMIN_KEY, "central", i, f, b) :
        i \in 1..MaxIds, f \in BOOLEAN, b \in UpdateBodies}
    \cup {UpdateReq(ADMIN_KEY, "fernando", i, FALSE,
                    [EmptyBody EXCEPT !.codigo = <<"a", "é">>]) :
            i \in 1..MaxIds}
    \cup {UpdateReq(ADMIN_KEY, s, 1, f, [EmptyBody EXCEPT !.precio = <<"2">>]) :
            s \in {"norte", "central/"}, f \in BOOLEAN}
    \cup {UpdateReq(k, s, 1, TRUE, [EmptyBody EXCEPT !.precio = <<"2">>]) :
            k \in WrongKeys, s \in {"central", "norte"}}

\* Deletes: either product on every branch, and one with every wrong key.
DeleteReqs ==
    {DeleteReq(ADMIN_KEY, s, i) : s \in BranchIn, i \in 1..MaxIds}
    \cup {DeleteReq(k, s, 1) : k \in WrongKeys, s \in {"central", "norte"}}

----------------------------------------------------------------------------
(* The state machine *)

\* After startup: every branch has its directory and an empty snapshot.
Init ==
    /\ db = [s \in SUCURSALES |-> <<>>]
    /\ files = {}
    /\ now = 0
    /\ req = NoRequest
    /\ res = NoResponse
    /\ broken = {}
    /\ issued = 0
    /\ inflight = {}

\* The handler of request r ends with outcome o, and rest are the requests
\* still waiting for theirs.  A response is held until it is sent.
Reply(r, o, rest) ==
    /\ o.res.status # 0
    /\ db' = o.db
    /\ files' = o.files
    /\ broken' = o.broken
    /\ req' = r
    /\ res' = o.res
    /\ issued' = o.issued
    /\ inflight' = rest
    /\ UNCHANGED now

\* A request answered in the step it arrives in.
Respond(r, o) == Reply(r, o, inflight)

\* The server takes the next step when the last response is sent.
Idle == res = NoResponse

\* The least of the numbers 1..cap that no waiting request carries: what
\* tells a waiting request from another with the same content.
FreeSlot(cap) ==
    CHOOSE k \in 1..cap :
        /\ \A x \in inflight : x.slot # k
        /\ \A j \in 1..(k - 1) : \E x \in inflight : x.slot = j

\* checkAdmin and upload.single("imagen") of POST /upload and PUT /producto.
\* checkAdmin answers 401 at once.  upload.single stores the file and the
\* request waits for its handler; when the file cannot be opened the error
\* goes to next() and Express answers 500.  Any request may arrive while
\* others wait, up to cap waiting requests.  seen is what the properties
\* remember of the moment the request arrived.
Middleware(r, seen, cap) ==
    /\ ~NoNameLeft(r)
    /\ IF ~checkAdmin(r.key)
       THEN Respond(r, Outcome(Response(401, "Admin requerido", <<>>),
                               db, files))
       ELSE LET up == storage(r.suc, r.file, r.ext, files)
            IN  IF up.failed
                THEN Respond(r, Outcome(InternalError, db, files))
                ELSE /\ Cardinality(inflight) < cap
                     /\ files' = up.files
                     /\ inflight' = inflight \cup
                            {[r EXCEPT !.filename = up.filename,
                                       !.seen = seen,
                                       !.slot = FreeSlot(cap)]}
                     /\ UNCHANGED <<db, now, req, res, broken, issued>>

\* The handler of a request upload.single has finished with: synchronous,
\* from its first line to its response in one step.
Handle(x) ==
    LET up == [failed |-> FALSE, filename |-> x.filename, files |-> files]
        o == IF x.op = "create" THEN postUploadHandler(x, up)
             ELSE putProductoHandler(x, up)
    IN  Reply(x, o, inflight \ {x})

Handler ==
    /\ Idle
    /\ \E x \in inflight : Handle(x)

PostUpload ==
    /\ Idle
    /\ \E r \in CreateReqs : Middleware(r, <<>>, MaxInflight)

PutProducto ==
    /\ Idle
    /\ \E r \in UpdateReqs : Middleware(r, <<>>, MaxInflight)

DeleteProducto ==
    /\ Idle
    /\ \E r \in DeleteReqs :
           Respond(r, deleteProducto(r))

GetProductos ==
    /\ Idle
    /\ \E r \in {GetReq(s) : s \in BranchIn} :
           Respond(r, getProductos(r.suc))

ExportJson ==
    /\ Idle
    /\ \E r \in {ExportReq(s) : s \in BranchIn} :
           Respond(r, exportJson(r.suc))

\* The response is sent.
Send ==
    /\ res # NoResponse
    /\ req' = NoRequest
    /\ res' = NoResponse
    /\ UNCHANGED <<db, files, now, broken, issued, inflight>>

\* The clock advances.
Tick ==
    /\ now < MaxTime
    /\ now' = now + 1
    /\ UNCHANGED <<db, files, req, res, broken, issued, inflight>>

Next ==
    \/ PostUpload
    \/ PutProducto
    \/ Handler
    \/ DeleteProducto
    \/ GetProductos
    \/ ExportJson
    \/ Send
    \/ Tick

Spec == Init /\ [][Next]_vars

----------------------------------------------------------------------------
(* Definitions the properties share *)

\* This step answers a request: req' is the request, res' its response, and
\* the unprimed db and files are the disk when its handler starts (for a
\* Create or Update that passed the admin check, with the request's upload
\* already stored).
Handled == res = NoResponse /\ res' # NoResponse

\* This step is upload.single finishing with a request, which now waits for
\* its handler.
Received == inflight' # inflight /\ inflight \subseteq inflight'

Mutating == {"create", "update", "delete"}

\* Text equal up to the case of its letters, compared letter by letter.
SameLetter(x, y) ==
    x = y \/ \E k \in 1..Len(UpperCase) : {x, y} = {UpperCase[k], LowerCase[k]}
EqualsIgnoreCase(a, b) ==
    Len(a) = Len(b) /\ \A i \in 1..Len(a) : SameLetter(a[i], b[i])

\* A field that is missing or empty.
Blank(v) == v = Undefined \/ v = <<>>

\* The request is authorized and names an allowed branch.
Admitted(r) == r.key = ADMIN_KEY /\ r.suc \in SUCURSALES

\* The positions of the product `id` in a catalog.
Positions(productos, id) == {i \in DOMAIN productos : productos[i].id = id}

\* The file a product's img refers to.
ImgFile(p) == <<p.img[2], p.img[3]>>

\* The files no product refers to.
Orphans == files \ {ImgFile(p) : p \in AllProducts}

\* The file upload.single stored for the request r, if any.
Upload(r) ==
    IF r.filename = <<>> THEN {} ELSE {<<joinUpDir(r.suc), r.filename>>}

----------------------------------------------------------------------------
(* C1 *)

\* C1: a request for a branch outside the allowed set is answered with the
\* invalid-branch error and leaves the disk as it was: no file written or
\* left behind, no snapshot changed; also when it carries an image.  (Stated
\* for requests that pass the admin check where the route has one.)
C1_InvalidBranchTouchesNothing ==
    [][(/\ Handled
        /\ req'.suc \notin SUCURSALES
        /\ req'.op \in Mutating => req'.key = ADMIN_KEY)
       => (/\ res'.status = 400
           /\ res'.error = "Sucursal invalida"
           /\ files' = files \ Upload(req')
           /\ db' = db)]_vars

----------------------------------------------------------------------------
(* C2 *)

\* C2: no two distinct products of a branch's catalog have codes that are
\* equal up to letter case.
C2_CodigoUnique ==
    \A s \in SUCURSALES : \A i, j \in DOMAIN db[s] :
        i # j => ~EqualsIgnoreCase(db[s][i].codigo, db[s][j].codigo)

\* An Update has just changed a code in a catalog of two products.
C2_Witness ==
    /\ req.op = "update" /\ res.status = 200
    /\ req.body.codigo # Undefined
    /\ Len(db[req.suc]) = 2
    /\ res.productos[1].codigo = req.body.codigo

----------------------------------------------------------------------------
(* C3 *)

\* A well-formed Create: admitted, with an image and the four required fields.
WellFormedCreate(r) ==
    /\ r.op = "create" /\ Admitted(r) /\ r.file
    /\ \A f \in RequiredFields : ~Blank(r.body[f])

\* C3: a well-formed Create whose code equals, up to letter case, the code of
\* a product of the branch is answered 409, changes no snapshot, and its
\* stored image is gone from the disk; one whose code is new succeeds.
C3_DuplicateCreateRejected ==
    [][(Handled /\ WellFormedCreate(req'))
       => IF \E i \in DOMAIN db[req'.suc] :
                 EqualsIgnoreCase(db[req'.suc][i].codigo, req'.body.codigo)
          THEN /\ res'.status = 409
               /\ db' = db
               /\ Upload(req') # {}
               /\ files' = files \ Upload(req')
          ELSE /\ res'.status = 200
               /\ Len(db'[req'.suc]) = Len(db[req'.suc]) + 1]_vars

\* A Create was answered 409 for a code that differs in case from the one
\* in the catalog.
C3_Witness ==
    /\ req.op = "create" /\ res.status = 409
    /\ \E i \in DOMAIN db[req.suc] :
           /\ db[req.suc][i].codigo # req.body.codigo
           /\ EqualsIgnoreCase(db[req.suc][i].codigo, req.body.codigo)

----------------------------------------------------------------------------
(* C4 *)

\* C4: an admitted Create with an image and a required field missing or
\* empty is answered 400 and leaves the same files on disk as before it:
\* the image just stored is deleted.
C4_ValidationFailureCleansUp ==
    [][(/\ Handled
        /\ req'.op = "create" /\ Admitted(req') /\ req'.file
        /\ \E f \in RequiredFields : Blank(req'.body[f]))
       => (/\ res'.status = 400
           /\ Upload(req') # {}
           /\ files' = files \ Upload(req'))]_vars

\* A Create with an image and an empty field was answered 400 while the
\* branch holds an asset.
C4_Witness ==
    /\ req.op = "create" /\ req.file /\ Admitted(req)
    /\ \E f \in RequiredFields : req.body[f] = <<>>
    /\ res.status = 400
    /\ \E f \in files : f[1] = req.suc

----------------------------------------------------------------------------
(* C5 *)

\* C5: a Create, Update or Delete whose key is absent or is not the
\* configured secret is answered 401 and leaves snapshots and files as
\* they were; so none succeeds without the secret.
C5_AdminGate ==
    [][(Handled /\ req'.op \in Mutating /\ req'.key # ADMIN_KEY)
       => (res'.status = 401 /\ db' = db /\ files' = files)]_vars

\* A request with a wrong, non-empty key was answered 401 while a catalog
\* holds a product.
C5_Witness ==
    /\ req.op \in Mutating /\ req.key = <<"x">> /\ res.status = 401
    /\ AllProducts # {}

----------------------------------------------------------------------------
(* C6 *)

\* C6: Create succeeds only with an image and the four required fields
\* present and non-empty; with one of them missing or empty it does not
\* succeed and changes no snapshot, and an admitted one is answered 400.
C6_CreateRequires ==
    [][(Handled /\ req'.op = "create")
       => LET blank == \E f \in RequiredFields : Blank(req'.body[f])
          IN  /\ res'.status = 200 => (req'.file /\ ~blank)
              /\ blank => (res'.status # 200 /\ db' = db)
              /\ (blank /\ Admitted(req')) => res'.status = 400]_vars

\* A Create without categoria was answered 400.
C6_Witness ==
    /\ req.op = "create" /\ Admitted(req) /\ req.file
    /\ req.body.categoria = Undefined
    /\ \A f \in RequiredFields \ {"categoria"} : ~Blank(req.body[f])
    /\ res.status = 400

----------------------------------------------------------------------------
(* C7 *)

\* An admitted Update of a product in the catalog whose code differs from the
\* product's and equals, up to letter case, the code of another product.
CollidingUpdate(r) ==
    /\ r.op = "update" /\ Admitted(r)
    /\ ~Blank(r.body.codigo)
    /\ \E i \in Positions(db[r.suc], r.id) :
           /\ db[r.suc][i].codigo # r.body.codigo
           /\ \E j \in DOMAIN db[r.suc] :
                  /\ db[r.suc][j].id # r.id
                  /\ EqualsIgnoreCase(db[r.suc][j].codigo, r.body.codigo)

\* C7: a colliding Update is answered 409 and every snapshot is as before,
\* whatever other fields or image the request carries.
C7_UpdateConflictCommitsNothing ==
    [][(Handled /\ CollidingUpdate(req')) => (res'.status = 409 /\ db' = db)]_vars

\* An Update that carried a price and an image besides the code was
\* answered 409.
C7_Witness ==
    /\ req.op = "update" /\ res.status = 409
    /\ req.file /\ req.body.precio # Undefined

----------------------------------------------------------------------------
(* C9 *)

\* C9: an Update that gives no code, or a code equal to the product's own
\* (exactly, or up to letter case), is never answered 409: the product is
\* not a duplicate of itself.
C9_NoSelfConflict ==
    [][(/\ Handled
        /\ req'.op = "update"
        /\ \/ req'.body.codigo = Undefined
           \/ /\ req'.suc \in SUCURSALES
              /\ \E i \in Positions(db[req'.suc], req'.id) :
                     EqualsIgnoreCase(db[req'.suc][i].codigo, req'.body.codigo))
       => res'.status # 409]_vars

\* An Update that gave the product's own code succeeded, and one that gave
\* it in another case did too.
C9_Witness ==
    /\ req.op = "update" /\ res.status = 200
    /\ Len(db[req.suc]) = 2
    /\ req.body.codigo # Undefined
    /\ res.productos[1].codigo \in {<<"a", "é">>, <<"A", "É">>}

----------------------------------------------------------------------------
(* C10 *)

\* C10: after a successful Delete of `id` the branch's catalog is the one
\* before it without that product, the file its img referred to is not on
\* disk, and every other file and every other catalog is as before.
C10_DeleteRemovesProductAndAsset ==
    [][(Handled /\ req'.op = "delete" /\ res'.status = 200)
       => LET s == req'.suc
              gone == {db[s][i] : i \in Positions(db[s], req'.id)}
          IN  /\ Cardinality(gone) = 1
              /\ Positions(db'[s], req'.id) = {}
              /\ db'[s] = SelectSeq(db[s], LAMBDA x : x.id # req'.id)
              /\ \A t \in SUCURSALES \ {s} : db'[t] = db[t]
              /\ \A p \in gone : /\ ImgFile(p) \notin files'
                                  /\ files' = files \ {ImgFile(p)}]_vars

\* A Delete succeeded, removed a file, and left another product and its
\* file in the branch.
C10_Witness ==
    /\ req.op = "delete" /\ res.status = 200
    /\ Len(db[req.suc]) = 1
    /\ ImgFile(db[req.suc][1]) \in files
    /\ ImgFile(res.productos[1]) \notin files

----------------------------------------------------------------------------
(* C8 *)

\* The edit form's traffic on one branch: two products are created, the
\* second is edited with every combination of fields, either is deleted.
OfferBody ==
    [FullBody(<<"b", "2">>) EXCEPT !.oferta = <<"o", "n">>,
                                   !.precioPromo = <<"9">>]
NewValues ==
    [codigo |-> <<"A", "É">>, nombre |-> <<"L">>, precio |-> <<"2">>,
     categoria |-> <<"s">>, oferta |-> <<"o", "n">>, precioPromo |-> <<"9">>]
PatchBodies ==
    {[f \in FieldNames |-> IF f \in present THEN NewValues[f] ELSE Undefined] :
        present \in SUBSET FieldNames}
    \cup OneOff(EmptyBody)
PatchCreateReqs ==
    {CreateReq(ADMIN_KEY, "central", TRUE, b) :
        b \in {FullBody(<<"a", "é">>), OfferBody}}
PatchUpdateReqs ==
    {UpdateReq(ADMIN_KEY, "central", 2, FALSE, b) : b \in PatchBodies}
    \cup {UpdateReq(ADMIN_KEY, "central", 2, TRUE, b) : b \in OneOff(EmptyBody)}
PatchDeleteReqs ==
    {DeleteReq(ADMIN_KEY, "central", i) : i \in 1..MaxIds}

PatchCreate ==
    /\ Idle
    /\ \E r \in PatchCreateReqs : Middleware(r, <<>>, MaxInflight)
PatchUpdate ==
    /\ Idle
    /\ \E r \in PatchUpdateReqs : Middleware(r, <<>>, MaxInflight)
PatchDelete ==
    /\ Idle
    /\ \E r \in PatchDeleteReqs :
           Respond(r, deleteProducto(r))
\* The clock stands still in this family: the time stamp is not among the
\* fields an Update's body carries.
NextPatch ==
    PatchCreate \/ PatchUpdate \/ Handler \/ PatchDelete \/ Send
SpecPatch == Init /\ [][NextPatch]_vars

\* C8: a successful Update leaves the catalog's length, every other product,
\* every other branch, the product's id and position, every field the
\* request does not carry, and (without a new image) img as they were.
C8_UpdateIsPartialPatch ==
    [][(Handled /\ req'.op = "update" /\ res'.status = 200)
       => LET s == req'.suc
          IN  /\ Len(db'[s]) = Len(db[s])
              /\ \A t \in SUCURSALES \ {s} : db'[t] = db[t]
              /\ \A i \in DOMAIN db[s] :
                     IF db[s][i].id # req'.id
                     THEN db'[s][i] = db[s][i]
                     ELSE /\ db'[s][i].id = db[s][i].id
                          /\ \A f \in FieldNames :
                                 req'.body[f] = Undefined
                                     => db'[s][i][f] = db[s][i][f]
                          /\ ~req'.file => db'[s][i].img = db[s][i].img]_vars

\* An Update that carried a price and an offer flag but no name and no promo
\* price succeeded on the product at the second position.
C8_Witness ==
    /\ req.op = "update" /\ res.status = 200
    /\ req.body.precio # Undefined /\ req.body.oferta # Undefined
    /\ req.body.nombre = Undefined /\ req.body.precioPromo = Undefined
    /\ Len(db["central"]) = 2
    /\ db["central"][2].id = req.id
    /\ db["central"][2].precio = req.body.precio
    /\ db["central"][2].precioPromo = <<"9">>

----------------------------------------------------------------------------
(* C11 *)

\* C11: a Delete of an id that is not in the branch's catalog is answered
\* 404 and leaves every snapshot and every file as they were (so repeating
\* it meets the same state and gives the same answer); and after a
\* successful Delete the id is not in the catalog, so the next Delete of it
\* is in that case.
C11_DeleteOfAbsentIdChangesNothing ==
    [][/\ (Handled /\ req'.op = "delete" /\ Admitted(req')
            /\ Positions(db[req'.suc], req'.id) = {})
           => (res'.status = 404 /\ db' = db /\ files' = files)
       /\ (Handled /\ req'.op = "delete" /\ res'.status = 200)
           => Positions(db'[req'.suc], req'.id) = {}]_vars

\* A Delete was answered 404 on a branch that holds a product and its file.
C11_Witness ==
    /\ req.op = "delete" /\ res.status = 404
    /\ Len(db[req.suc]) = 1
    /\ ImgFile(db[req.suc][1]) \in files

----------------------------------------------------------------------------
(* C12 *)

\* A snapshot file is removed or overwritten with text that is not JSON
\* (by hand, by a restore, by a write the disk cut short).
Damage ==
    /\ Idle
    /\ \E s \in SUCURSALES : s \notin broken /\ broken' = broken \cup {s}
    /\ UNCHANGED <<db, files, now, req, res, issued, inflight>>

\* Every operation, on branches whose snapshot may be damaged.
LoadReqs ==
    {CreateReq(ADMIN_KEY, s, f, FullBody(c)) :
        s \in {"central", "fernando"}, f \in BOOLEAN, c \in Codigos}
    \cup {UpdateReq(ADMIN_KEY, s, i, f, [EmptyBody EXCEPT !.precio = <<"2">>]) :
            s \in {"central", "fernando"}, i \in 1..MaxIds, f \in BOOLEAN}
    \cup {DeleteReq(ADMIN_KEY, s, i) :
            s \in {"central", "fernando"}, i \in 1..MaxIds}
LoadCreate ==
    /\ Idle
    /\ \E r \in LoadReqs :
           r.op = "create" /\ Middleware(r, <<>>, MaxInflight)
LoadUpdate ==
    /\ Idle
    /\ \E r \in LoadReqs :
           r.op = "update" /\ Middleware(r, <<>>, MaxInflight)
LoadDelete ==
    /\ Idle
    /\ \E r \in LoadReqs :
           r.op = "delete" /\ Respond(r, deleteProducto(r))
NextLoad ==
    \/ LoadCreate \/ LoadUpdate \/ Handler \/ LoadDelete
    \/ GetProductos \/ ExportJson \/ Damage \/ Send
SpecLoad == Init /\ [][NextLoad]_vars

\* C12: an operation that passes the branch check and the admin gate on a
\* branch whose snapshot is missing or unreadable is answered as on an empty
\* catalog: the list and the export are empty, a Create that carries an
\* image succeeds, an Update or Delete finds no product; never an internal
\* error.
C12_LoadNeverFails ==
    [][(/\ Handled
        /\ req'.suc \in broken
        /\ req'.op \in Mutating => req'.key = ADMIN_KEY)
       => /\ res'.status # 500
          /\ req'.op \in {"get", "export"} => res' = Response(200, "", <<>>)
          /\ req'.op \in {"update", "delete"} => res'.status = 404
          /\ req'.op = "create"
                 => res'.status = IF req'.file THEN 200 ELSE 400]_vars

----------------------------------------------------------------------------
(* C13 and C14: the exports *)

\* Products whose texts hold commas, double quotes, line feeds, backslashes.
ExportBody(c, n, pr, k) ==
    [codigo |-> c, nombre |-> n, precio |-> pr, categoria |-> k,
     oferta |-> Undefined, precioPromo |-> Undefined]
ExportBodies ==
    {ExportBody(<<"a", "é">>, n, <<"1">>, <<"d">>) :
        n \in {<<"G">>, <<"a", ",", "\"">>, <<"\"">>, <<"x", "\n", "y">>,
               <<"\\", "n">>, <<"\t", BS, SOH, "\r", "\f", "/">>}}
    \cup {ExportBody(<<"b", ",">>, <<"G">>, pr, <<"s">>) :
            pr \in {<<"1">>, <<"1", "\n", "2">>}}
    \cup {[FullBody(<<"a", "é">>) EXCEPT !.oferta = <<"o", "n">>,
                                         !.precioPromo = pp] :
            pp \in {<<"9", ",", "5">>, <<"9", "\n">>}}
Cats == {Undefined, <<>>, <<"d">>, <<"s">>, <<"z">>}
CsvReq(s, cat) ==
    [op |-> "csv", key |-> Undefined, suc |-> s, id |-> 0, file |-> FALSE,
     body |-> EmptyBody, wfail |-> FALSE, wtrunc |-> FALSE, filename |-> <<>>,
     slot |-> 0, seen |-> <<>>, cat |-> cat]

ExportCreate ==
    /\ Idle
    /\ \E r \in {CreateReq(ADMIN_KEY, "central", TRUE, b) :
                      b \in ExportBodies}
                 \cup {[CreateReq(ADMIN_KEY, "central", TRUE,
                                  FullBody(<<"a", "é">>)) EXCEPT !.ext = e] :
                          e \in Exts \ {DefaultExt}} :
           Middleware(r, <<>>, MaxInflight)
\* Updates of either product: of its price and its name, to texts that
\* need quoting and escaping, and of its image, with an extension that
\* needs quoting.
ExportUpdateReqs ==
    {UpdateReq(ADMIN_KEY, "central", i, FALSE,
               [EmptyBody EXCEPT !.precio = <<"2", "\n">>,
                                 !.nombre = <<"x", ",", "\"", SOH>>]) :
        i \in 1..MaxIds}
    \cup {[UpdateReq(ADMIN_KEY, "central", i, TRUE, EmptyBody)
              EXCEPT !.ext = <<".", "j", ",", "g">>] : i \in 1..MaxIds}
ExportUpdate ==
    /\ Idle
    /\ \E r \in ExportUpdateReqs : Middleware(r, <<>>, MaxInflight)
ExportDelete ==
    /\ Idle
    /\ \E r \in {DeleteReq(ADMIN_KEY, "central", i) : i \in 1..MaxIds} :
           Respond(r, deleteProducto(r))
ExportCsv ==
    /\ Idle
    /\ \E r \in {CsvReq("central", cat) : cat \in Cats}
                 \cup {CsvReq("norte", Undefined)} :
           Respond(r, exportCsv(r.suc, r.cat))
NextExport ==
    ExportCreate \/ ExportUpdate \/ Handler \/ ExportDelete \/ ExportCsv
    \/ ExportJson \/ Send \/ Tick
SpecExport == Init /\ [][NextExport]_vars

\* C13: right after a successful Create the JSON export of the branch holds
\* a product with the values of the record Create returned (id and ts
\* included), and every product the catalog held before, unchanged.
C13_CreateExportRoundTrip ==
    [][(Handled /\ req'.op = "create" /\ res'.status = 200)
       => LET e == (exportJson(req.suc).res)'
              c == res'.productos[1]
          IN  /\ e.status = 200
              /\ \E i \in DOMAIN e.productos :
                     /\ \A f \in FieldNames : e.productos[i][f] = c[f]
                     /\ e.productos[i].img = c.img
                     /\ e.productos[i].id = c.id
                     /\ e.productos[i].ts = c.ts
              /\ \A j \in DOMAIN db[req'.suc] :
                     \E i \in DOMAIN e.productos :
                         e.productos[i] = db[req'.suc][j]]_vars

\* A product whose name holds a comma and a double quote was created next
\* to an earlier one.
C13_Witness ==
    /\ req.op = "create" /\ res.status = 200
    /\ req.body.nombre = <<"a", ",", "\"">>
    /\ Len(db[req.suc]) = 2
    /\ db[req.suc][2].nombre = req.body.nombre

----------------------------------------------------------------------------
(* C14 *)

\* The rendering the claim describes: a value that holds a comma, a double
\* quote or a line feed is wrapped in double quotes with its double quotes
\* doubled, any other value is rendered as it is.
ClaimedCell(v) ==
    IF \E i \in 1..Len(v) : v[i] \in {",", "\"", "\n"}
    THEN <<"\"">> \o doubleQuotes(v) \o <<"\"">>
    ELSE v
ClaimedLine(p) ==
    join(<<ClaimedCell(p.codigo), ClaimedCell(p.nombre), ClaimedCell(p.precio),
           ClaimedCell(p.categoria), IF p.oferta THEN <<"1">> ELSE <<"0">>,
           ClaimedCell(p.precioPromo), ClaimedCell(imgText(p.img))>>, ",")
ClaimedCsv(productos, cat) ==
    LET rows == SelectSeq(productos,
                          LAMBDA p : cat \in {Undefined, <<>>} \/ p.categoria = cat)
    IN  join(<<join([i \in 1..Len(header) |-> <<header[i]>>], ",")>>
             \o [i \in 1..Len(rows) |-> ClaimedLine(rows[i])], "\n")

\* C14: the CSV export of an allowed branch is the header and one line per
\* product matching the category filter, in catalog order, every value
\* rendered as the claim describes; and the export changes no snapshot.
C14_CsvQuoting ==
    [][(Handled /\ req'.op = "csv" /\ res'.status = 200)
       => /\ res'.productos = ClaimedCsv(db[req'.suc], req'.cat)
          /\ db' = db
          /\ files' = files]_vars

----------------------------------------------------------------------------
(* C15: requests that overlap *)

\* multer reads the request's body from the network, so other requests are
\* served while it does; the handler that follows is synchronous
\* (readFileSync, writeFileSync) and runs from its first line to its response
\* with nothing in between.  Delete has no multer step.
\* Two Creates, and three Updates of one product: two of its price, with and
\* without an image, and one of its name.
ConcReqs ==
    {CreateReq(ADMIN_KEY, "central", TRUE, FullBody(c)) :
        c \in {<<"a", "é">>, <<"b", "2">>}}
    \cup {UpdateReq(ADMIN_KEY, "central", 1, f,
                    [EmptyBody EXCEPT !.precio = <<"2">>]) : f \in BOOLEAN}
    \cup {UpdateReq(ADMIN_KEY, "central", 1, FALSE,
                    [EmptyBody EXCEPT !.nombre = <<"L">>])}

\* Up to MaxConcurrent requests wait for their handlers at a time; each
\* remembers the catalog as it was when it arrived.
ConcReceive ==
    /\ Idle
    /\ \E r \in ConcReqs : Middleware(r, db[r.suc], MaxConcurrent)

ConcDelete ==
    /\ Idle
    /\ \E r \in {DeleteReq(ADMIN_KEY, "central", i) : i \in 1..MaxIds} :
           Respond([r EXCEPT !.seen = db[r.suc]],
                   deleteProducto([r EXCEPT !.seen = db[r.suc]]))

NextConc == ConcReceive \/ Handler \/ ConcDelete \/ Send
SpecConc == Init /\ [][NextConc]_vars

\* A mutation is answered success.
Success == Handled /\ req'.op \in Mutating /\ res'.status = 200

\* What the step that answers a mutation leaves is the catalog as it was
\* persisted just before the step with the mutation's own change and nothing
\* else: a Create appends its product; an Update writes the fields and the
\* image its request carries on its product, as the response shows it, and
\* keeps the others; a Delete takes its product out; every other product is
\* kept, in order, and so is every other branch.
OwnChangeOnly ==
    LET s == req'.suc
        old == db[s]
        new == db'[s]
    IN  /\ \A t \in SUCURSALES \ {s} : db'[t] = db[t]
        /\ (req'.op = "create") => (new = Append(old, res'.productos[1]))
        /\ (req'.op = "delete")
               => (new = SelectSeq(old, LAMBDA p : p.id # req'.id))
        /\ (req'.op = "update")
               => /\ Len(new) = Len(old)
                  /\ \A i \in DOMAIN old :
                         IF old[i].id # req'.id
                         THEN new[i] = old[i]
                         ELSE /\ new[i] = res'.productos[1]
                              /\ new[i].id = old[i].id
                              /\ \A f \in FieldNames :
                                     (req'.body[f] = Undefined)
                                         => (new[i][f] = old[i][f])
                              /\ ~req'.file => (new[i].img = old[i].img)

\* A lost update: a mutation is answered success and its save has dropped
\* or undone something that was persisted when its handler ran, its own
\* product included, which is what a save of a catalog loaded earlier does
\* to the saves made since.
LostUpdate == Success /\ ~OwnChangeOnly

\* A lost update can be the next step (0), or a step after at most 1..5
\* steps: four are enough for two mutations to arrive on the empty catalog
\* and the first to be handled and answered, before the second's handler.
LostUpdateWithin0 == ENABLED (NextConc /\ LostUpdate)
LostUpdateWithin1 == ENABLED (NextConc /\ (LostUpdate \/ LostUpdateWithin0'))
LostUpdateWithin2 == ENABLED (NextConc /\ (LostUpdate \/ LostUpdateWithin1'))
LostUpdateWithin3 == ENABLED (NextConc /\ (LostUpdate \/ LostUpdateWithin2'))
LostUpdateWithin4 == ENABLED (NextConc /\ (LostUpdate \/ LostUpdateWithin3'))
LostUpdateWithin5 == ENABLED (NextConc /\ (LostUpdate \/ LostUpdateWithin4'))

\* C15 as claimed: there is a reachable state in which a mutation that
\* returned success has overwritten another's change; here, one that
\* overlapping requests reach within six steps of the server's start.
C15_LostUpdateReachable == Init => LostUpdateWithin5

\* C15 as the code behaves: no step is a lost update.  Every mutation that
\* is answered success leaves the catalog persisted just before its handler
\* ran with its own change and nothing else, whatever overlapped with it.
C15_NoLostUpdate == [][~LostUpdate]_vars

\* An Update of the name of a product arrived when its price was 1, was
\* handled after an overlapping Update had saved the price 2, and the
\* snapshot holds both changes.
C15_Witness ==
    /\ req.op = "update" /\ res.status = 200
    /\ req.body.nombre = <<"L">>
    /\ req.seen # <<>> /\ req.seen[1].id = req.id
    /\ req.seen[1].precio = <<"1">>
    /\ db[req.suc][1].id = req.id
    /\ db[req.suc][1].precio = <<"2">>
    /\ db[req.suc][1].nombre = <<"L">>

----------------------------------------------------------------------------
(* C16 and C20: a disk that refuses the snapshot's write *)

\* The admin requests on one branch, each with the write of data/<s>.json
\* succeeding, refused at the open (file not writable) or failing after
\* the open (disk full).
DiskReqs ==
    {[r EXCEPT !.wfail = w[1], !.wtrunc = w[2]] :
        r \in {CreateReq(ADMIN_KEY, "central", TRUE, FullBody(c)) :
                  c \in {<<"a", "é">>, <<"b", "2">>}}
              \cup {UpdateReq(ADMIN_KEY, "central", i, f,
                              [EmptyBody EXCEPT !.precio = <<"2">>]) :
                      i \in 1..MaxIds, f \in BOOLEAN}
              \cup {DeleteReq(ADMIN_KEY, "central", i) : i \in 1..MaxIds},
        w \in {<<FALSE, FALSE>>, <<TRUE, FALSE>>, <<TRUE, TRUE>>}}
DiskCreate ==
    /\ Idle
    /\ \E r \in DiskReqs :
           r.op = "create" /\ Middleware(r, <<>>, MaxInflight)
DiskUpdate ==
    /\ Idle
    /\ \E r \in DiskReqs :
           r.op = "update" /\ Middleware(r, <<>>, MaxInflight)
DiskDelete ==
    /\ Idle
    /\ \E r \in DiskReqs :
           r.op = "delete" /\ Respond(r, deleteProducto(r))
NextDisk ==
    DiskCreate \/ DiskUpdate \/ Handler \/ DiskDelete \/ Send \/ Tick
SpecDisk == Init /\ [][NextDisk]_vars

\* Every product of the snapshots refers to a file that is on disk.
ImagesOnDisk == \A p \in AllProducts : ImgFile(p) \in files

\* C16: an Update, with a new image or not, whether its save succeeds or
\* fails, leaves no product of the persisted catalog referring to a file
\* that has been deleted.
C16_UpdateKeepsReferencedAsset ==
    [][(Handled /\ req'.op = "update" /\ ImagesOnDisk) => ImagesOnDisk']_vars

----------------------------------------------------------------------------
(* C20 *)

\* C20: a Delete of a product of the catalog whose save fails has changed
\* nothing: the snapshots are as before (the product is still there) and
\* the file its img refers to, like every other file, is still on disk.
C20_DeleteAllOrNothing ==
    [][(/\ Handled /\ req'.op = "delete" /\ req'.wfail
        /\ Positions(db[req'.suc], req'.id) # {})
       => /\ db' = db
          /\ files' = files
          /\ \A i \in Positions(db[req'.suc], req'.id) :
                 ImgFile(db[req'.suc][i]) \in files =>
                     ImgFile(db'[req'.suc][i]) \in files']_vars

----------------------------------------------------------------------------
(* C17 *)

\* C17: after an Update is rejected with the duplicate-code conflict, no
\* file is on disk unreferenced by the catalog that was not so before the
\* request: the image stored for the request has been removed.
C17_UpdateConflictCleansUp ==
    [][(Handled /\ req'.op = "update" /\ res'.status = 409)
       => Orphans' \subseteq Orphans \ Upload(req')]_vars

----------------------------------------------------------------------------
(* C18 *)

\* C18: a Create, Update or Delete aimed at a branch outside the allowed set
\* with a missing or wrong admin key is answered with the invalid-branch
\* error, not with the authorization error.
C18_BranchCheckedBeforeAdmin ==
    [][(/\ Handled /\ req'.op \in Mutating
        /\ req'.suc \notin SUCURSALES
        /\ req'.key # ADMIN_KEY)
       => (res'.status = 400 /\ res'.error = "Sucursal invalida")]_vars

----------------------------------------------------------------------------
(* C19: src/server.js, the server that names uploads after the original file *)

\* safeBranch: lower case, every run of other characters than a-z 0-9 _ -
\* becomes "_"; on the branch names the model sends.
safeBranch(b) ==
    IF b = "Central" THEN "central"
    ELSE IF b = "central/" THEN "central_"
    ELSE b

\* process.env.ADMIN_KEY || null, with the variable not set.
REQUIRED_ADMIN_KEY == Undefined

\* String.prototype.trim on texts of the model (the blank is " ").
RECURSIVE trimStart(_)
trimStart(v) ==
    IF v # <<>> /\ Head(v) = " " THEN trimStart(Tail(v)) ELSE v
RECURSIVE trimEnd(_)
trimEnd(v) ==
    IF v # <<>> /\ v[Len(v)] = " " THEN trimEnd(SubSeq(v, 1, Len(v) - 1))
    ELSE v
trim(v) == trimEnd(trimStart(v))

\* requireAdmin: the configured key, or any non-blank key when none is
\* configured.
requireAdmin(k) ==
    LET key == orEmpty(k)
    IN  IF REQUIRED_ADMIN_KEY # Undefined THEN key = REQUIRED_ADMIN_KEY
        ELSE trim(key) # <<>>

\* normalizeBool
normalizeBool(v) ==
    IF v = JsTrue THEN TRUE
    ELSE toLowerCase(orEmpty(v)) \in
             {<<"1">>, <<"t", "r", "u", "e">>, <<"s", "í">>, <<"s", "i">>,
              <<"o", "n">>, <<"y", "e", "s">>}

\* The original names of the uploaded files (lower case, no character that
\* the sanitising of base would replace).
OriginalNames == {"foto.jpg", "lente.png"}

\* multer's storage: the file is written to
\* <safeBranch>/<Date.now()>_<base><ext>, over a file of that name if any.
serverFilename(original) == <<now, original>>
serverStorage(suc, original, fs) ==
    fs \cup {<<safeBranch(suc), serverFilename(original)>>}

\* readDb: the catalog of the branch's file, the empty catalog when the
\* file is missing or is not JSON.
readDb(suc) == IF suc \in broken THEN <<>> ELSE db[suc]

\* The handler of POST /upload/:sucursal, after requireAdmin and multer:
\* r.filename is the name multer stored the file under, <<>> with no file.
\* The whole body is in a try whose catch answers 500 'Error al subir', so
\* a writeDb that throws is answered with that, the upload left on disk.
serverPostUpload(r) ==
    LET suc == safeBranch(r.suc)
        data == readDb(suc)
        b == r.body
        nuevo == [id |-> NewId,
                  codigo |-> trim(orEmpty(b.codigo)),
                  nombre |-> trim(orEmpty(b.nombre)),
                  precio |-> trim(orEmpty(b.precio)),
                  categoria |-> trim(IF Truthy(b.categoria)
                                     THEN b.categoria
                                     ELSE <<"d", "a", "m", "a">>),
                  oferta |-> normalizeBool(b.oferta),
                  precioPromo |-> trim(orEmpty(b.precioPromo)),
                  img |-> IF r.filename # <<>>
                          THEN relPath(suc, r.filename)
                          ELSE <<>>]
        w == writeJson(db, broken, suc, <<nuevo>> \o data, r.wfail, r.wtrunc)
    IN  IF FreeIds = {}
        THEN Outcome(Response(0, "bound", <<>>), db, files)
        ELSE IF \/ nuevo.codigo = <<>> \/ nuevo.nombre = <<>>
                \/ nuevo.precio = <<>> \/ nuevo.img = <<>>
        THEN Issuing(Outcome(Response(400, "Faltan campos obligatorios",
                                      <<>>), db, files))
        ELSE IF r.wfail
        THEN Issuing(Saved(Response(500, "Error al subir", <<>>), w, files))
        ELSE Issuing(Saved(Response(200, "", <<nuevo>>), w, files))

\* The handler of PUT /producto/:sucursal/:id, for a request with no field.
\* Nothing catches a writeDb that throws: Express answers it.
serverPutProducto(r) ==
    LET suc == safeBranch(r.suc)
        data == readDb(suc)
        i == findIndex(data, r.id)
        q == IF r.filename # <<>>
             THEN [data[i] EXCEPT !.img = relPath(suc, r.filename)]
             ELSE data[i]
        w == writeJson(db, broken, suc, [data EXCEPT ![i] = q],
                       r.wfail, r.wtrunc)
    IN  IF i = 0
        THEN Outcome(Response(404, "No encontrado", <<>>), db, files)
        ELSE IF r.wfail THEN Saved(InternalError, w, files)
        ELSE Saved(Response(200, "", <<q>>), w, files)

\* DELETE /producto/:sucursal/:id: the record goes, the file stays.
serverDeleteProducto(r) ==
    IF ~requireAdmin(r.key)
    THEN Outcome(Response(401, "Admin requerido", <<>>), db, files)
    ELSE LET suc == safeBranch(r.suc)
             data == readDb(suc)
             idx == findIndex(data, r.id)
             w == writeJson(db, broken, suc, splice(data, idx),
                            r.wfail, r.wtrunc)
         IN  IF idx = 0
             THEN Outcome(Response(404, "No encontrado", <<>>), db, files)
             ELSE IF r.wfail THEN Saved(InternalError, w, files)
             ELSE Saved(Response(200, "", <<>>), w, files)

ServerReq(op, s, i, f, original, b) ==
    [op |-> op, key |-> ADMIN_KEY, suc |-> s, id |-> i, file |-> f,
     body |-> b, wfail |-> FALSE, wtrunc |-> FALSE, original |-> original,
     filename |-> <<>>, slot |-> 0]
\* The request r meeting a writeDb that throws, the file left as it was
\* (~t) or emptied (t).
ServerFailing(r, t) == [r EXCEPT !.wfail = TRUE, !.wtrunc = t]
\* A request without the admin key.
ServerNoKey(r) == [r EXCEPT !.key = Undefined]
ServerBranches == {"central", "Central", "fernando"}
\* Creates: either name and a full or a blank code on the two spellings of
\* central, with and without an image; one on another branch; one whose
\* save fails; one without the key.
ServerCreateReqs ==
    {ServerReq("create", s, 0, f, o, FullBody(c)) :
        s \in {"central", "Central"}, f \in BOOLEAN, o \in OriginalNames,
        c \in {<<"a", "é">>, <<" ">>}}
    \cup {ServerReq("create", "fernando", 0, TRUE, "foto.jpg",
                    FullBody(<<"a", "é">>))}
    \cup {ServerFailing(ServerReq("create", "central", 0, TRUE, "foto.jpg",
                                  FullBody(<<"b", "2">>)), t) :
            t \in BOOLEAN}
    \cup {ServerNoKey(ServerReq("create", "central", 0, TRUE, "foto.jpg",
                                FullBody(<<"a", "é">>)))}
ServerUpdateReqs ==
    {ServerReq("update", "central", i, f, o, EmptyBody) :
        i \in 1..MaxIds, f \in BOOLEAN, o \in OriginalNames}
    \cup {ServerReq("update", s, 1, TRUE, "foto.jpg", EmptyBody) :
            s \in ServerBranches}
    \cup {ServerFailing(ServerReq("update", "central", 1, TRUE, "foto.jpg",
                                  EmptyBody), t) : t \in BOOLEAN}
ServerDeleteReqs ==
    {ServerReq("delete", s, i, FALSE, "foto.jpg", EmptyBody) :
        s \in ServerBranches, i \in 1..MaxIds}
    \cup {ServerFailing(ServerReq("delete", "central", 1, FALSE, "foto.jpg",
                                  EmptyBody), t) : t \in BOOLEAN}

\* requireAdmin, then upload.single("imagen"): the file is on disk when the
\* handler is called, in a later turn of the event loop.
ServerMiddleware(r) ==
    IF ~requireAdmin(r.key)
    THEN Respond(r, Outcome(Response(401, "Admin requerido", <<>>), db, files))
    ELSE /\ Cardinality(inflight) < MaxInflight
         /\ files' = IF r.file THEN serverStorage(r.suc, r.original, files)
                     ELSE files
         /\ inflight' = inflight \cup
                {[r EXCEPT !.filename = IF r.file
                                        THEN serverFilename(r.original)
                                        ELSE <<>>,
                           !.slot = FreeSlot(MaxInflight)]}
         /\ UNCHANGED <<db, now, req, res, broken, issued>>

ServerPostUpload ==
    /\ Idle
    /\ \E r \in ServerCreateReqs : ServerMiddleware(r)
ServerPutProducto ==
    /\ Idle
    /\ \E r \in ServerUpdateReqs : ServerMiddleware(r)
\* The handler of a request multer has finished with.
ServerHandler ==
    /\ Idle
    /\ \E x \in inflight :
           Reply(x, IF x.op = "create" THEN serverPostUpload(x)
                    ELSE serverPutProducto(x), inflight \ {x})
ServerDeleteProducto ==
    /\ Idle
    /\ \E r \in ServerDeleteReqs :
           Respond(r, serverDeleteProducto(r))
NextServer ==
    ServerPostUpload \/ ServerPutProducto \/ ServerHandler
    \/ ServerDeleteProducto \/ Send \/ Tick
SpecServer == Init /\ [][NextServer]_vars

\* C19: no two products of a catalog have the same img reference.
C19_ImgUniquePerProduct ==
    \A s \in SUCURSALES : \A i, j \in DOMAIN db[s] :
        i # j => db[s][i].img # db[s][j].img

----------------------------------------------------------------------------
(* C21 *)

\* C21: with no storage failure, every product of a branch's snapshot has an
\* img of the form /uploads/<that branch>/<name the server generated>, and
\* the file it refers to is on disk.
C21_ImgRefersToStoredFile ==
    \A s \in SUCURSALES : \A i \in DOMAIN db[s] :
        LET img == db[s][i].img
        IN  /\ img # <<>>
            /\ Len(img) = 3
            /\ img[1] = "uploads"
            /\ img[2] = s
            /\ img[3] \in (1..MaxFiles) \X Exts
            /\ <<s, img[3]>> \in files

\* An Update with a new image succeeded, after a rejected request had left a
\* file behind, and the updated product refers to its new file.
C21_Witness ==
    /\ req.op = "update" /\ req.file /\ res.status = 200
    /\ Orphans # {}
    /\ \E i \in DOMAIN db[req.suc] :
         /\ db[req.suc][i].id = req.id
         /\ ImgFile(db[req.suc][i]) \in files

----------------------------------------------------------------------------
(* C22 *)

\* The files stored in the directory of a branch.
FilesOf(fs, t) == {f \in fs : f[1] = t}

\* C22: a Create, Update or Delete on an allowed branch leaves the snapshot
\* and the stored files of every other branch as they were, and a code that
\* no other product of the branch itself carries is never answered 409,
\* whatever the other branches hold; and the upload of a request touches
\* no snapshot and no directory but that of the request's branch.
C22_BranchesIsolated ==
    [][/\ (Handled /\ req'.op \in Mutating /\ req'.suc \in SUCURSALES)
           => /\ \A t \in SUCURSALES \ {req'.suc} :
                     /\ db'[t] = db[t]
                     /\ FilesOf(files', t) = FilesOf(files, t)
              /\ (/\ WellFormedCreate(req')
                  /\ ~\E i \in DOMAIN db[req'.suc] :
                         EqualsIgnoreCase(db[req'.suc][i].codigo,
                                          req'.body.codigo))
                     => res'.status = 200
              /\ (req'.op = "update" /\ ~CollidingUpdate(req'))
                     => res'.status # 409
       /\ Received
           => /\ db' = db
              /\ \A x \in inflight' \ inflight :
                     \A t \in SUCURSALES \ {joinUpDir(x.suc)} :
                         FilesOf(files', t) = FilesOf(files, t)]_vars

\* A Create succeeded on a branch with a code that, up to letter case, a
\* product of another branch carries.
C22_Witness ==
    /\ req.op = "create" /\ res.status = 200
    /\ \E t \in SUCURSALES \ {req.suc} : \E i \in DOMAIN db[t] :
           EqualsIgnoreCase(db[t][i].codigo, req.body.codigo)

====
